---- MODULE Spec2Model ----
(***************************************************************************)
(* cargo-build-deps (src/main.rs): query cargo for a build plan, extract   *)
(* the external packages of the plan, and run `cargo build -p ...` for     *)
(* them; in workspace mode, once per workspace member.                     *)
(*                                                                         *)
(* A Rust String / byte buffer is a sequence of one-character strings.     *)
(***************************************************************************)
EXTENDS Integers, Sequences, FiniteSets, TLC

VARIABLES opts, members, idx, pc, curdir, cmd, stderr, plan, pkgs, command, log,
          panicMsg

vars ==
    <<opts, members, idx, pc, curdir, cmd, stderr, plan, pkgs, command, log, panicMsg>>

(***************************************************************************)
(* Bounds                                                                  *)
(***************************************************************************)
\* longest build plan of the extraction specification
MaxInv == 3
\* longest build plan a plan query returns in the process specification
MaxPlan == 2
\* most members of a workspace manifest
MaxMembers == 2

(***************************************************************************)
(* Strings: bytewise order of Rust's String                                *)
(***************************************************************************)
\* the characters in use, in ASCII order
Alphabet ==
    <<"+", "-", ".", "/", "0", "1", "2", "3", "4", "5", "6", "7", "8", "9", ":",
      "C", "Z", "_", "a", "b", "c", "d", "e", "f", "g", "h", "i", "j", "k", "l",
      "m", "n", "o", "p", "q", "r", "s", "t", "u", "v", "w", "x", "y", "z">>

Digits == <<"0", "1", "2", "3", "4", "5", "6", "7", "8", "9">>

\* a byte that is no part of any UTF-8 text
InvalidByte == "0xFF"

Ord(c) == CHOOSE i \in 1..Len(Alphabet) : Alphabet[i] = c

IsDigit(c) == \E i \in 1..10 : Digits[i] = c

DigitVal(c) == (CHOOSE i \in 1..10 : Digits[i] = c) - 1

RECURSIVE StrCmp(_, _)
\* <String as Ord>::cmp: -1, 0 or 1
StrCmp(a, b) ==
    IF a = <<>> /\ b = <<>> THEN 0
    ELSE IF a = <<>> THEN -1
    ELSE IF b = <<>> THEN 1
    ELSE IF Ord(Head(a)) < Ord(Head(b)) THEN -1
    ELSE IF Ord(Head(a)) > Ord(Head(b)) THEN 1
    ELSE StrCmp(Tail(a), Tail(b))

RECURSIVE Join(_, _)
Join(ss, sep) ==
    IF ss = <<>> THEN <<>>
    ELSE IF Len(ss) = 1 THEN ss[1]
    ELSE ss[1] \o sep \o Join(Tail(ss), sep)

\* String::from_utf8: fails on a byte sequence that is not UTF-8
FromUtf8Ok(bytes) == \A i \in 1..Len(bytes) : bytes[i] # InvalidByte

(***************************************************************************)
(* semver::Version                                                         *)
(***************************************************************************)
\* index of the first occurrence of c in s, 0 when there is none
IndexOf(s, c) ==
    IF \E i \in 1..Len(s) : s[i] = c
    THEN CHOOSE i \in 1..Len(s) : s[i] = c /\ \A j \in 1..(i - 1) : s[j] # c
    ELSE 0

RECURSIVE Split(_, _)
\* s.split(c)
Split(s, c) ==
    LET i == IndexOf(s, c) IN
    IF i = 0 THEN <<s>>
    ELSE <<SubSeq(s, 1, i - 1)>> \o Split(SubSeq(s, i + 1, Len(s)), c)

RECURSIVE NumVal(_, _)
NumVal(s, acc) ==
    IF s = <<>> THEN acc ELSE NumVal(Tail(s), 10 * acc + DigitVal(Head(s)))

RECURSIVE NumStr(_)
\* decimal rendering of a natural number
NumStr(n) ==
    IF n < 10 THEN <<Digits[n + 1]>> ELSE NumStr(n \div 10) \o <<Digits[(n % 10) + 1]>>

AllDigits(s) == s # <<>> /\ \A i \in 1..Len(s) : IsDigit(s[i])

\* a numeric component: digits, without a leading zero
IsNumeric(s) == AllDigits(s) /\ (Len(s) > 1 => s[1] # "0")

\* a pre-release or build identifier: non-empty, alphanumerics and hyphens
IsIdentChar(c) == c \notin {"+", ".", "/", ":", "_", InvalidByte}

IsIdent(s) == s # <<>> /\ \A i \in 1..Len(s) : IsIdentChar(s[i])

\* semver::Identifier: Numeric(u64) | AlphaNumeric(String)
Identifier(s) ==
    IF AllDigits(s) THEN [num |-> TRUE, n |-> NumVal(s, 0), s |-> <<>>]
    ELSE [num |-> FALSE, n |-> 0, s |-> s]

IdentStr(id) == IF id.num THEN NumStr(id.n) ELSE id.s

\* the three parts of a version string: core, pre-release, build metadata
VersionParts(s) ==
    LET b == IndexOf(s, "+")
        body == IF b = 0 THEN s ELSE SubSeq(s, 1, b - 1)
        p == IndexOf(body, "-")
    IN  [core |-> Split(IF p = 0 THEN body ELSE SubSeq(body, 1, p - 1), "."),
         pre |-> IF p = 0 THEN <<>> ELSE Split(SubSeq(body, p + 1, Len(body)), "."),
         build |-> IF b = 0 THEN <<>> ELSE Split(SubSeq(s, b + 1, Len(s)), ".")]

\* Version::parse(s).is_ok()
VersionOk(s) ==
    LET v == VersionParts(s) IN
    /\ Len(v.core) = 3
    /\ \A i \in 1..3 : IsNumeric(v.core[i])
    /\ \A i \in 1..Len(v.pre) : IsIdent(v.pre[i])
    /\ \A i \in 1..Len(v.build) : IsIdent(v.build[i])

\* Version::parse(s).unwrap(), for a string that parses
VersionParse(s) ==
    LET v == VersionParts(s) IN
    [major |-> NumVal(v.core[1], 0),
     minor |-> NumVal(v.core[2], 0),
     patch |-> NumVal(v.core[3], 0),
     pre |-> [i \in 1..Len(v.pre) |-> Identifier(v.pre[i])],
     build |-> [i \in 1..Len(v.build) |-> Identifier(v.build[i])]]

\* <Version as Display>::fmt
VersionStr(v) ==
    NumStr(v.major) \o <<".">> \o NumStr(v.minor) \o <<".">> \o NumStr(v.patch)
    \o (IF v.pre = <<>> THEN <<>>
        ELSE <<"-">> \o Join([i \in 1..Len(v.pre) |-> IdentStr(v.pre[i])], <<".">>))
    \o (IF v.build = <<>> THEN <<>>
        ELSE <<"+">> \o Join([i \in 1..Len(v.build) |-> IdentStr(v.build[i])], <<".">>))

NumCmp(a, b) == IF a < b THEN -1 ELSE IF a > b THEN 1 ELSE 0

\* <Identifier as Ord>::cmp: a numeric identifier is below an alphanumeric one
IdentCmp(a, b) ==
    IF a.num /\ b.num THEN NumCmp(a.n, b.n)
    ELSE IF a.num THEN -1
    ELSE IF b.num THEN 1
    ELSE StrCmp(a.s, b.s)

RECURSIVE PreCmp(_, _)
\* <Vec<Identifier> as Ord>::cmp
PreCmp(a, b) ==
    IF a = <<>> /\ b = <<>> THEN 0
    ELSE IF a = <<>> THEN -1
    ELSE IF b = <<>> THEN 1
    ELSE IF IdentCmp(Head(a), Head(b)) # 0 THEN IdentCmp(Head(a), Head(b))
    ELSE PreCmp(Tail(a), Tail(b))

\* <Version as Ord>::cmp: major, minor, patch, then the pre-release, a version
\* without pre-release above one with; build metadata takes no part
VersionCmp(a, b) ==
    IF a.major # b.major THEN NumCmp(a.major, b.major)
    ELSE IF a.minor # b.minor THEN NumCmp(a.minor, b.minor)
    ELSE IF a.patch # b.patch THEN NumCmp(a.patch, b.patch)
    ELSE IF a.pre = <<>> /\ b.pre = <<>> THEN 0
    ELSE IF a.pre = <<>> THEN 1
    ELSE IF b.pre = <<>> THEN -1
    ELSE PreCmp(a.pre, b.pre)

(***************************************************************************)
(* Package                                                                 *)
(***************************************************************************)
\* derived Ord of Package: by name, then by version
PackageCmp(p, q) ==
    IF StrCmp(p.name, q.name) # 0 THEN StrCmp(p.name, q.name)
    ELSE VersionCmp(p.version, q.version)

\* the package rendered as its name alone
PackageStrNameOnly(p) == p.name

\* <Package as Display>::fmt: "{}:{}"
PackageStr(p) == p.name \o <<":">> \o VersionStr(p.version)

(***************************************************************************)
(* build_deps: from the build plan to the package list                     *)
(***************************************************************************)
\* the filter without the comparison of the working directory
KeepAnyCwd(i, cwd) == i.args # <<>>

\* the filter without the test of the arguments
KeepAnyArgs(i, cwd) == i.cwd # cwd

\* .filter(|i| !i.args.is_empty() && i.cwd.as_str() != cwd.as_os_str())
Keep(i, cwd) == i.args # <<>> /\ i.cwd # cwd

RECURSIVE Filter(_, _)
Filter(invs, cwd) ==
    IF invs = <<>> THEN <<>>
    ELSE (IF Keep(Head(invs), cwd) THEN <<Head(invs)>> ELSE <<>>) \o Filter(Tail(invs), cwd)

\* Version::parse(..).unwrap() panics on an invocation that passed the filter
ParseFails(invs, cwd) ==
    LET kept == Filter(invs, cwd) IN
    \E k \in 1..Len(kept) : ~VersionOk(kept[k].env.CARGO_PKG_VERSION)

\* .map(|i| Package { name, version }).collect()
Collect(invs, cwd) ==
    LET kept == Filter(invs, cwd) IN
    [k \in 1..Len(kept) |->
        [name |-> kept[k].env.CARGO_PKG_NAME,
         version |-> VersionParse(kept[k].env.CARGO_PKG_VERSION)]]

RECURSIVE Insert(_, _)
\* p placed behind every element that is not above it
Insert(sorted, p) ==
    IF sorted = <<>> THEN <<p>>
    ELSE IF PackageCmp(sorted[Len(sorted)], p) <= 0 THEN Append(sorted, p)
    ELSE Append(Insert(SubSeq(sorted, 1, Len(sorted) - 1), p), sorted[Len(sorted)])

RECURSIVE SortFrom(_, _)
SortFrom(sorted, rest) ==
    IF rest = <<>> THEN sorted ELSE SortFrom(Insert(sorted, Head(rest)), Tail(rest))

\* pkgs.sort(): the stable sort by the derived order
Sort(ps) == SortFrom(<<>>, ps)

\* pkgs.reverse()
Reverse(ps) == [k \in 1..Len(ps) |-> ps[Len(ps) + 1 - k]]

RECURSIVE DedupFrom(_, _)
DedupFrom(kept, rest) ==
    IF rest = <<>> THEN kept
    ELSE IF kept # <<>> /\ kept[Len(kept)].name = Head(rest).name
         THEN DedupFrom(kept, Tail(rest))
    ELSE DedupFrom(Append(kept, Head(rest)), Tail(rest))

\* pkgs.dedup_by_key(|p| p.name.clone()): of a run of equal names the first stays
DedupByName(ps) == DedupFrom(<<>>, ps)

\* the deduplication on the ascending list: the lowest version stays
SortDedupNoReverse(ps) == DedupByName(Sort(ps))

\* sort, reverse, no deduplication, reverse
SortNoDedup(ps) == Reverse(Reverse(Sort(ps)))

\* pkgs.sort(); pkgs.reverse(); pkgs.dedup_by_key(..); pkgs.reverse();
SortDedup(ps) == Reverse(DedupByName(Reverse(Sort(ps))))

\* the package list of a plan whose kept versions all parse
ExtractPackages(invs, cwd) == SortDedup(Collect(invs, cwd))

\* what the filter, the parse and the sort leave of a plan; an unparsable
\* version is skipped
ExtractSkipUnparsed(invs, cwd) ==
    LET kept == Filter(invs, cwd)
        good == SelectSeq(kept, LAMBDA i : VersionOk(i.env.CARGO_PKG_VERSION))
    IN  [ok |-> TRUE,
         pkgs |-> SortDedup([k \in 1..Len(good) |->
                     [name |-> good[k].env.CARGO_PKG_NAME,
                      version |-> VersionParse(good[k].env.CARGO_PKG_VERSION)]])]

\* lines 77-90: the unwrap of a failed parse panics, otherwise the package list
Extract(invs, cwd) ==
    IF ParseFails(invs, cwd) THEN [ok |-> FALSE, pkgs |-> <<>>]
    ELSE [ok |-> TRUE, pkgs |-> ExtractPackages(invs, cwd)]

(***************************************************************************)
(* build_deps: the two commands                                            *)
(***************************************************************************)
S_build == <<"b", "u", "i", "l", "d">>
S_build_plan == <<"-", "-", "b", "u", "i", "l", "d", "-", "p", "l", "a", "n">>
S_Z == <<"-", "Z">>
S_unstable_options ==
    <<"u", "n", "s", "t", "a", "b", "l", "e", "-", "o", "p", "t", "i", "o", "n", "s">>
S_tests == <<"-", "-", "t", "e", "s", "t", "s">>
S_manifest_path ==
    <<"-", "-", "m", "a", "n", "i", "f", "e", "s", "t", "-", "p", "a", "t", "h">>
S_release == <<"-", "-", "r", "e", "l", "e", "a", "s", "e">>
S_target == <<"-", "-", "t", "a", "r", "g", "e", "t">>
S_verbose == <<"-", "-", "v", "e", "r", "b", "o", "s", "e">>
S_p == <<"-", "p">>
S_Cargo_toml == <<"C", "a", "r", "g", "o", ".", "t", "o", "m", "l">>

\* the arguments of the plan query (lines 50-58); manifest is an Option
QueryCmd(manifest, include_tests) ==
    <<S_build, S_build_plan, S_Z, S_unstable_options>>
    \o (IF include_tests THEN <<S_tests>> ELSE <<>>)
    \o (IF manifest # <<>> THEN <<S_manifest_path, manifest[1]>> ELSE <<>>)

RECURSIVE PackageArgs(_)
\* for pkg in pkgs { command.args(&["-p", &pkg.to_string()]); }
PackageArgs(ps) ==
    IF ps = <<>> THEN <<>> ELSE <<S_p, PackageStr(Head(ps))>> \o PackageArgs(Tail(ps))

\* the scoped build with the manifest path ahead of the verbose flag
BuildCmdManifestFirst(manifest, target, is_release, verbose, ps) ==
    <<S_build>>
    \o (IF is_release THEN <<S_release>> ELSE <<>>)
    \o (IF target # <<>> THEN <<S_target, target[1]>> ELSE <<>>)
    \o (IF manifest # <<>> THEN <<S_manifest_path, manifest[1]>> ELSE <<>>)
    \o (IF verbose THEN <<S_verbose>> ELSE <<>>)
    \o PackageArgs(ps)

\* the arguments of the scoped build (lines 93-113); manifest and target are
\* Options
BuildCmd(manifest, target, is_release, verbose, ps) ==
    <<S_build>>
    \o (IF is_release THEN <<S_release>> ELSE <<>>)
    \o (IF target # <<>> THEN <<S_target, target[1]>> ELSE <<>>)
    \o (IF verbose THEN <<S_verbose>> ELSE <<>>)
    \o (IF manifest # <<>> THEN <<S_manifest_path, manifest[1]>> ELSE <<>>)
    \o PackageArgs(ps)

\* PathBuf::push: an absolute component replaces the path
Push(path, comp) ==
    IF comp # <<>> /\ comp[1] = "/" THEN comp
    ELSE IF path # <<>> /\ path[Len(path)] = "/" THEN path \o comp
    ELSE path \o <<"/">> \o comp

\* the manifest path of a workspace member (lines 183-185)
MemberManifest(cwd, member) == Push(Push(cwd, member), S_Cargo_toml)

(***************************************************************************)
(* Inputs                                                                  *)
(***************************************************************************)
N_dep == <<"d", "e", "p">>
N_m1 == <<"m", "1">>

\* the name of the k-th workspace member
MemberName(k) == <<"m">> \o NumStr(k)

D_ws == <<"/", "w", "s">>
D_reg == <<"/", "r", "e", "g">>

V_1_1_0 == <<"1", ".", "1", ".", "0">>
V_1_2_0 == <<"1", ".", "2", ".", "0">>
V_1_10_0 == <<"1", ".", "1", "0", ".", "0">>
V_1_10_0_a == <<"1", ".", "1", "0", ".", "0", "-", "a">>
V_1_x == <<"1", ".", "x">>

A_rustc == <<<<"r", "u", "s", "t", "c">>>>

T_linux ==
    <<"x", "8", "6", "_", "6", "4", "-", "u", "n", "k", "n", "o", "w", "n", "-",
      "l", "i", "n", "u", "x", "-", "g", "n", "u">>

E_error == <<"e", "r", "r", "o", "r">>

\* struct Invocation over the given names, directories and version strings
Invocations(names, dirs, versions) ==
    [args : {<<>>, A_rustc},
     cwd : dirs,
     env : [CARGO_PKG_NAME : names, CARGO_PKG_VERSION : versions]]

\* struct BuildPlan: the sequences of at most n invocations
Plans(invs, n) == UNION {[1..k -> invs] : k \in 0..n}

\* the plans of the extraction specification
ExtractPlans ==
    Plans(Invocations({N_dep, N_m1}, {D_ws, D_reg}, {V_1_2_0, V_1_10_0, V_1_10_0_a}),
          MaxInv)

\* the plans a plan query prints
QueryPlans ==
    Plans(Invocations({N_dep}, {D_ws, Push(D_ws, N_m1)}, {V_1_1_0, V_1_x})
          \cup Invocations({N_m1}, {D_ws, Push(D_ws, N_m1)}, {V_1_10_0_a, V_1_x}),
          MaxPlan)

\* the result of cmd.output(): an error, or the exit status with the two
\* captured streams; stdout is the text of a plan, text that is no plan, or
\* bytes that are no text
QueryOutputs ==
    {[spawned |-> FALSE, success |-> FALSE, stdout |-> "none", invocations |-> <<>>,
      stderr |-> <<>>]}
    \cup {[spawned |-> TRUE, success |-> FALSE, stdout |-> "none", invocations |-> <<>>,
           stderr |-> e] : e \in {E_error, <<InvalidByte>>}}
    \cup {[spawned |-> TRUE, success |-> TRUE, stdout |-> k, invocations |-> <<>>,
           stderr |-> <<>>] : k \in {"not utf8", "not a plan"}}
    \cup {[spawned |-> TRUE, success |-> TRUE, stdout |-> "plan", invocations |-> p,
           stderr |-> <<>>] : p \in QueryPlans}

\* the result of spawn() and wait() in execute_command
BuildResults == {"spawn failed", "wait failed", "success", "code", "signal"}

\* the member lists of a workspace manifest
MemberLists == {[k \in 1..n |-> MemberName(k)] : n \in 0..MaxMembers}

Options ==
    [debug : BOOLEAN, release : BOOLEAN, tests : BOOLEAN, verbose : BOOLEAN,
     workspace : BOOLEAN, target : {<<>>, <<T_linux>>}]

NoOptions ==
    [debug |-> FALSE, release |-> FALSE, tests |-> FALSE, verbose |-> FALSE,
     workspace |-> FALSE, target |-> <<>>]

NoPanic == [msg |-> "", text |-> <<>>]

Event(e, m) == [ev |-> e, m |-> m]

(***************************************************************************)
(* The extraction alone: lines 73-90 applied to a plan and a directory     *)
(***************************************************************************)
InitExtract ==
    /\ opts = NoOptions
    /\ members = <<>>
    /\ idx = 0
    /\ pc = "extract"
    /\ curdir \in {D_ws, D_reg}
    /\ cmd = <<>>
    /\ stderr = <<>>
    /\ plan \in ExtractPlans
    /\ pkgs = <<>>
    /\ command = <<>>
    /\ log = <<>>
    /\ panicMsg = NoPanic

ExtractStep ==
    /\ pc = "extract"
    /\ LET r == Extract(plan, curdir) IN
       /\ pc' = IF r.ok THEN "extracted" ELSE "panicked"
       /\ pkgs' = r.pkgs
    /\ UNCHANGED <<opts, members, idx, curdir, cmd, stderr, plan, command, log, panicMsg>>

NextExtract == ExtractStep

SpecExtract == InitExtract /\ [][NextExtract]_vars

(***************************************************************************)
(* The process: main, build_deps and execute_command.  A step runs from    *)
(* one wait for a child process to the next.  log is what the process has  *)
(* printed and which child processes it has run, with their results; plan, *)
(* pkgs and command are the locals of the running build_deps.              *)
(***************************************************************************)
Init ==
    /\ opts \in Options
    /\ members = <<>>
    /\ idx = 0
    /\ pc = "main"
    /\ curdir = D_ws
    /\ cmd = <<>>
    /\ stderr = <<>>
    /\ plan = <<>>
    /\ pkgs = <<>>
    /\ command = <<>>
    /\ log = <<>>
    /\ panicMsg = NoPanic

\* the manifest argument of the i-th call of build_deps (lines 192, 197)
ManifestOf(ms, i) ==
    IF opts.workspace THEN <<MemberManifest(curdir, ms[i])>> ELSE <<>>

\* a panic: the message is printed and the process ends
Panic(msg, text, sofar) ==
    /\ pc' = "panicked"
    /\ panicMsg' = [msg |-> msg, text |-> text]
    /\ log' = Append(sofar, Event("panic", idx))

\* lines 187-197 and 48-64: announce the i-th build_deps, build the plan query
\* and run it
CallBuildDeps(ms, i, sofar) ==
    /\ idx' = i
    /\ cmd' = QueryCmd(ManifestOf(ms, i), opts.tests)
    /\ log' = sofar \o <<Event("info", i)>>
                    \o (IF opts.debug THEN <<Event("debug query", i)>> ELSE <<>>)
                    \o <<Event("query", i)>>
    /\ pc' = "query"

\* main up to the first plan query: lines 166-197
MainStart ==
    /\ pc = "main"
    /\ IF opts.workspace
       THEN \/ /\ Panic("manifest", <<>>, log)
               /\ UNCHANGED <<members, idx, cmd>>
            \/ \E ms \in MemberLists :
                 /\ members' = ms
                 /\ IF ms = <<>>
                    THEN pc' = "exit" /\ UNCHANGED <<idx, cmd, log>>
                    ELSE CallBuildDeps(ms, 1, log)
                 /\ UNCHANGED panicMsg
       ELSE /\ CallBuildDeps(members, 1, log)
            /\ UNCHANGED <<members, panicMsg>>
    /\ UNCHANGED <<opts, curdir, stderr, plan, pkgs, command>>

\* every exit status of the plan query taken for a success
StatusSuccessAlways(out) == TRUE

\* output.status.success() (line 66)
StatusSuccess(out) == out.success

\* every exit status of the scoped build taken for a success
ExitSuccessAlways(r) == r \in {"success", "code", "signal"}

\* exit_status.success() (line 210), of a build that was spawned and awaited
ExitSuccess(r) == r = "success"

\* build_deps from the result of the plan query to the start of the scoped
\* build that scopes the packages ps: lines 92-118 and 203-206
StartBuild(ps, sofar) ==
    /\ pkgs' = ps
    /\ command' = BuildCmd(ManifestOf(members, idx), opts.target, opts.release,
                           opts.verbose, ps)
    /\ log' = sofar \o (IF opts.debug THEN <<Event("debug build", idx)>> ELSE <<>>)
                    \o <<Event("build", idx)>>
    /\ pc' = "build"
    /\ UNCHANGED panicMsg

\* the plan query returned: lines 64-118
QueryReturns ==
    /\ pc = "query"
    /\ \E out \in QueryOutputs :
         LET ended == Append(log, Event(IF ~out.spawned THEN "query not run"
                                        ELSE IF out.success THEN "query ok"
                                        ELSE "query failed", idx))
         IN
         /\ stderr' = out.stderr
         /\ IF ~out.spawned
            THEN Panic("Failed to execute", <<>>, ended) /\ UNCHANGED <<plan, pkgs, command>>
            ELSE IF ~StatusSuccess(out)
            THEN /\ IF FromUtf8Ok(out.stderr)
                    THEN Panic("", out.stderr, ended)
                    ELSE Panic("Not UTF-8", <<>>, ended)
                 /\ UNCHANGED <<plan, pkgs, command>>
            ELSE IF out.stdout = "not utf8"
            THEN Panic("Not UTF-8", <<>>, ended) /\ UNCHANGED <<plan, pkgs, command>>
            ELSE IF out.stdout = "not a plan"
            THEN Panic("serde_json", <<>>, ended) /\ UNCHANGED <<plan, pkgs, command>>
            ELSE /\ plan' = out.invocations
                 /\ LET r == Extract(out.invocations, curdir) IN
                    IF r.ok
                    THEN StartBuild(r.pkgs, ended)
                    ELSE Panic("semver", <<>>, ended) /\ UNCHANGED <<pkgs, command>>
    /\ UNCHANGED <<opts, members, idx, curdir, cmd>>

\* the scoped build ended: lines 203-215, then lines 193-198 and the next
\* member's build_deps
BuildExits ==
    /\ pc = "build"
    /\ plan' = <<>>
    /\ pkgs' = <<>>
    /\ command' = <<>>
    /\ \E r \in BuildResults :
         LET ended == Append(log, Event(CASE r = "success" -> "build ok"
                                          [] r \in {"code", "signal"} -> "build failed"
                                          [] OTHER -> "build not run", idx))
         IN
         IF r = "spawn failed"
         THEN Panic("failed to execute process", <<>>, ended) /\ UNCHANGED <<idx, cmd>>
         ELSE IF r = "wait failed"
         THEN Panic("failed to run command", <<>>, ended) /\ UNCHANGED <<idx, cmd>>
         ELSE IF ~ExitSuccess(r)
         THEN /\ Panic(IF r = "code" THEN "Exited with status code"
                       ELSE "Process terminated by signal", <<>>, ended)
              /\ UNCHANGED <<idx, cmd>>
         ELSE /\ UNCHANGED panicMsg
              /\ LET sofar == Append(ended, Event("done", idx)) IN
                 IF opts.workspace /\ idx < Len(members)
                 THEN CallBuildDeps(members, idx + 1, sofar)
                 ELSE pc' = "exit" /\ log' = sofar /\ UNCHANGED <<idx, cmd>>
    /\ UNCHANGED <<opts, members, curdir, stderr>>

Next == MainStart \/ QueryReturns \/ BuildExits

Spec == Init /\ [][Next]_vars

(***************************************************************************)
(* Properties                                                              *)
(***************************************************************************)
\* the extraction has run on plan, and produced pkgs
Extracted == pc \in {"extracted", "build"}

\* the invocation passes the filter of the extraction
Survives(i) == i.args # <<>> /\ i.cwd # curdir

\* the package list holds an entry of that name
Listed(name) == \E k \in 1..Len(pkgs) : pkgs[k].name = name

\* the entry k of the package list is what the invocation i carries
Carries(i, k) ==
    /\ pkgs[k].name = i.env.CARGO_PKG_NAME
    /\ VersionStr(pkgs[k].version) = i.env.CARGO_PKG_VERSION

\* semantic-version precedence: a is below b
Precedes(a, b) ==
    \/ a.major < b.major
    \/ a.major = b.major /\ a.minor < b.minor
    \/ a.major = b.major /\ a.minor = b.minor /\ a.patch < b.patch
    \/ /\ a.major = b.major /\ a.minor = b.minor /\ a.patch = b.patch
       /\ \/ a.pre # <<>> /\ b.pre = <<>>
          \/ a.pre # <<>> /\ b.pre # <<>> /\ PreCmp(a.pre, b.pre) < 0

\* C1: every entry of the extracted package list is carried by an invocation
\* whose cwd differs from the current working directory; an invocation whose
\* cwd is the current working directory contributes none, whatever its args
C1_CwdExcluded ==
    Extracted =>
        \A k \in 1..Len(pkgs) :
            \E j \in 1..Len(plan) : plan[j].cwd # curdir /\ Carries(plan[j], k)

\* a compiling invocation in the current directory, left out of a non-empty list
C1_Witness ==
    /\ pc = "extracted"
    /\ pkgs # <<>>
    /\ \E j \in 1..Len(plan) :
         /\ plan[j].cwd = curdir
         /\ plan[j].args # <<>>
         /\ ~Listed(plan[j].env.CARGO_PKG_NAME)

\* C2: every entry of the extracted package list is carried by an invocation
\* with non-empty args; an invocation with empty args contributes none, also
\* when its cwd differs from the current working directory
C2_EmptyArgsExcluded ==
    Extracted =>
        \A k \in 1..Len(pkgs) :
            \E j \in 1..Len(plan) : plan[j].args # <<>> /\ Carries(plan[j], k)

\* an invocation without args outside the current directory, left out of a
\* non-empty list
C2_Witness ==
    /\ pc = "extracted"
    /\ pkgs # <<>>
    /\ \E j \in 1..Len(plan) :
         /\ plan[j].cwd # curdir
         /\ plan[j].args = <<>>
         /\ ~Listed(plan[j].env.CARGO_PKG_NAME)

\* C3: the extracted package list is strictly ascending by package name, so no
\* two of its entries share a name
C3_StrictlyAscending ==
    Extracted =>
        /\ \A k \in 1..(Len(pkgs) - 1) : StrCmp(pkgs[k].name, pkgs[k + 1].name) < 0
        /\ \A k, l \in 1..Len(pkgs) : pkgs[k].name = pkgs[l].name => k = l

\* three surviving invocations of one name, two of them at the same version
\* and one at another, collapsed to one entry
C3_Witness ==
    /\ pc = "extracted"
    /\ Len(plan) = 3
    /\ \A j \in 1..3 : Survives(plan[j]) /\ plan[j].env.CARGO_PKG_NAME = N_dep
    /\ plan[1].env.CARGO_PKG_VERSION = plan[3].env.CARGO_PKG_VERSION
    /\ plan[1].env.CARGO_PKG_VERSION # plan[2].env.CARGO_PKG_VERSION
    /\ Len(pkgs) = 1

\* C4: for every name carried by an invocation that passes the filter, the
\* extracted list holds an entry of that name, whose version is the version of
\* such an invocation and is preceded by no other of them
C4_HighestVersion ==
    Extracted =>
        \A j \in 1..Len(plan) :
            Survives(plan[j]) =>
                \E k \in 1..Len(pkgs) :
                    /\ pkgs[k].name = plan[j].env.CARGO_PKG_NAME
                    /\ \E h \in 1..Len(plan) : Survives(plan[h]) /\ Carries(plan[h], k)
                    /\ \A h \in 1..Len(plan) :
                         Survives(plan[h])
                         /\ plan[h].env.CARGO_PKG_NAME = pkgs[k].name
                         => ~Precedes(pkgs[k].version,
                                      VersionParse(plan[h].env.CARGO_PKG_VERSION))

\* one name at 1.10.0, 1.2.0 and 1.10.0-a, in an order that leaves the highest
\* neither first nor last: 1.10.0 is kept
C4_Witness ==
    /\ pc = "extracted"
    /\ Len(plan) = 3
    /\ \A j \in 1..3 : Survives(plan[j]) /\ plan[j].env.CARGO_PKG_NAME = N_dep
    /\ plan[1].env.CARGO_PKG_VERSION = V_1_2_0
    /\ plan[2].env.CARGO_PKG_VERSION = V_1_10_0
    /\ plan[3].env.CARGO_PKG_VERSION = V_1_10_0_a
    /\ Len(pkgs) = 1
    /\ VersionStr(pkgs[1].version) = V_1_10_0

\* the positions of the scoped build's arguments that hold the flag "-p"
PFlags == {j \in 1..Len(command) : command[j] = S_p}

\* the number of arguments of the scoped build before the package flags
Base == Len(command) - 2 * Len(pkgs)

\* C5: the scoped build's arguments end with one "-p" per extracted package, in
\* the order of the list, each followed by the name, a colon and the version
\* string of a surviving invocation of that package; they hold no other "-p",
\* and none at all for an empty list, whose build is run all the same: the
\* version parse stops a run only for a plan with a surviving invocation
C5_PackageFlags ==
    /\ pc = "build" =>
        /\ Base >= 1
        /\ Cardinality(PFlags) = Len(pkgs)
        /\ PFlags = {Base + 2 * k - 1 : k \in 1..Len(pkgs)}
        /\ \A k \in 1..Len(pkgs) :
             \E j \in 1..Len(plan) :
                /\ Survives(plan[j])
                /\ Carries(plan[j], k)
                /\ command[Base + 2 * k] =
                     pkgs[k].name \o <<":">> \o plan[j].env.CARGO_PKG_VERSION
        /\ Len(plan) = 0 => PFlags = {} /\ log[Len(log)] = Event("build", idx)
    /\ pc = "panicked" /\ panicMsg.msg = "semver" =>
        \E j \in 1..Len(plan) : Survives(plan[j])

\* a scoped build of two packages, the second of them at a pre-release
C5_Witness ==
    /\ pc = "build"
    /\ Len(pkgs) = 2
    /\ pkgs[1].version.pre = <<>>
    /\ pkgs[2].version.pre # <<>>
    /\ Len(command) >= 5

\* the number of arguments a flag adds
Width(present, n) == IF present THEN n ELSE 0

\* C6: the scoped build's arguments are "build", "--release" iff release,
\* "--target" and the triple iff a target is given, "--verbose" iff verbose,
\* "--manifest-path" and the path iff there is a manifest path, then the
\* package flags, and nothing else, whatever tests and debug are; for release,
\* the linux target and [dep:1.1.0] they are
\* build --release --target x86_64-unknown-linux-gnu -p dep:1.1.0
C6_ArgumentOrder ==
    pc = "build" =>
        LET r == Width(opts.release, 1)
            t == Width(opts.target # <<>>, 2)
            v == Width(opts.verbose, 1)
            m == Width(opts.workspace, 2)
        IN  /\ Len(command) = 1 + r + t + v + m + 2 * Len(pkgs)
            /\ command[1] = S_build
            /\ opts.release => command[2] = S_release
            /\ opts.target # <<>> =>
                 command[2 + r] = S_target /\ command[3 + r] = opts.target[1]
            /\ opts.verbose => command[2 + r + t] = S_verbose
            /\ opts.workspace =>
                 /\ command[2 + r + t + v] = S_manifest_path
                 /\ command[3 + r + t + v] =
                      curdir \o <<"/">> \o members[idx] \o <<"/">> \o S_Cargo_toml
            /\ \A k \in 1..Len(pkgs) :
                 /\ command[r + t + v + m + 2 * k] = S_p
                 /\ command[r + t + v + m + 2 * k + 1] =
                      pkgs[k].name \o <<":">> \o VersionStr(pkgs[k].version)
            /\ (/\ opts.release /\ opts.target = <<T_linux>> /\ ~opts.verbose
                /\ ~opts.workspace
                /\ Len(pkgs) = 1 /\ pkgs[1].name = N_dep
                /\ VersionStr(pkgs[1].version) = V_1_1_0)
               => command = <<S_build, S_release, S_target, T_linux, S_p,
                              N_dep \o <<":">> \o V_1_1_0>>

\* every flag at once, with tests and debug set, before two packages
C6_Witness ==
    /\ pc = "build"
    /\ opts.release /\ opts.verbose /\ opts.workspace /\ opts.tests /\ opts.debug
    /\ opts.target = <<T_linux>>
    /\ Len(pkgs) = 2
    /\ Len(command) = 11

\* the events of a child process that failed or could not be run
Failures == {"query not run", "query failed", "build not run", "build failed"}

\* C7: a plan query or a scoped build is started for a member only after the
\* plan query and the scoped build of every earlier member have succeeded;
\* after a failed query or build nothing is run or reported but the panic;
\* "=> DONE" directly follows the success of the member's scoped build
C7_Sequential ==
    \A j \in 1..Len(log) :
        /\ log[j].ev \in {"query", "build"} =>
             \A m \in 1..(log[j].m - 1) :
                \E a, b \in 1..(j - 1) :
                    /\ a < b
                    /\ log[a] = Event("query ok", m)
                    /\ log[b] = Event("build ok", m)
        /\ log[j].ev = "build" =>
             \E a \in 1..(j - 1) : log[a] = Event("query ok", log[j].m)
        /\ log[j].ev \in Failures =>
             \A h \in (j + 1)..Len(log) : log[h].ev = "panic"
        /\ log[j].ev = "done" => j > 1 /\ log[j - 1] = Event("build ok", log[j].m)

\* the first member done, the scoped build of the second failed
C7_Witness ==
    /\ opts.workspace
    /\ Len(members) = 2
    /\ pc = "panicked"
    /\ \E j \in 1..Len(log) : log[j] = Event("done", 1)
    /\ \E j \in 1..Len(log) : log[j] = Event("build failed", 2)

\* the build of the plan at hand was started
BuildStarted == \E j \in 1..Len(log) : log[j] = Event("build", idx)

\* C8 as stated: a plan with a version string that is no semantic version,
\* in whatever invocation, ends the run in a panic before the scoped build
C8_AnyInvalidVersionFatal ==
    (\E j \in 1..Len(plan) : ~VersionOk(plan[j].env.CARGO_PKG_VERSION))
    => pc = "panicked" /\ ~BuildStarted

\* C8: a plan in which an invocation that passes the filter carries a version
\* string that is no semantic version ends the run in a panic, and its scoped
\* build is never started
C8_SurvivingInvalidVersionFatal ==
    (\E j \in 1..Len(plan) :
        Survives(plan[j]) /\ ~VersionOk(plan[j].env.CARGO_PKG_VERSION))
    => pc = "panicked" /\ panicMsg.msg = "semver" /\ ~BuildStarted

\* the second member's plan holds a surviving invocation at version "1.x"
C8_Witness ==
    /\ pc = "panicked"
    /\ idx = 2
    /\ \E j \in 1..Len(plan) :
         Survives(plan[j]) /\ plan[j].env.CARGO_PKG_VERSION = V_1_x

\* a plan query of the current member exited with a failure status
QueryFailed == \E j \in 1..Len(log) : log[j] = Event("query failed", idx)

\* what follows a failed plan query but the message: the process has ended,
\* the query was run once, no plan was parsed and no build started
FailedQueryEndsRun ==
    /\ pc = "panicked"
    /\ Len(log) >= 2
    /\ log[Len(log) - 1] = Event("query failed", idx)
    /\ Cardinality({j \in 1..Len(log) : log[j] = Event("query", idx)}) = 1
    /\ \A j \in 1..Len(log) : log[j].ev \in {"query", "build"} => log[j].m <= idx
    /\ ~BuildStarted
    /\ plan = <<>> /\ pkgs = <<>> /\ command = <<>>

\* C9 as stated: a failed plan query ends the process with an error that is
\* the query's standard-error text, without retry, parse or build
C9_PanicsWithStderr ==
    QueryFailed => FailedQueryEndsRun /\ panicMsg = [msg |-> "", text |-> stderr]

\* C9: a failed plan query ends the process, without retry, parse or build; the
\* error is the query's standard error when that is UTF-8 text, and the
\* "Not UTF-8" error of its decoding when it is not
C9_QueryFailureFatal ==
    QueryFailed =>
        /\ FailedQueryEndsRun
        /\ panicMsg =
             IF \E i \in 1..Len(stderr) : stderr[i] = InvalidByte
             THEN [msg |-> "Not UTF-8", text |-> <<>>]
             ELSE [msg |-> "", text |-> stderr]

\* the plan query of the second member failed, with the text "error"
C9_Witness ==
    /\ QueryFailed
    /\ idx = 2
    /\ stderr = E_error
    /\ panicMsg.text = E_error

\* C10: in workspace mode, when the invocations of the member's own package
\* have the member's directory as cwd, the member's name is in none of the
\* package flags of the member's scoped build
C10_MemberExcluded ==
    (/\ opts.workspace
     /\ pc = "build"
     /\ \A j \in 1..Len(plan) :
          plan[j].env.CARGO_PKG_NAME = members[idx]
          => plan[j].cwd = curdir \o <<"/">> \o members[idx])
    => \A k \in 1..Len(pkgs) :
          /\ pkgs[k].name # members[idx]
          /\ \A j \in PFlags :
               command[j + 1] # members[idx] \o <<":">> \o VersionStr(pkgs[k].version)

====
